---- MODULE Spec2Model ----
(***************************************************************************)
(* Model of the state-attestation core of the machine emulator:            *)
(*   - back_merkle_tree (src/src/back-merkle-tree.cpp): constructor,       *)
(*     push_back, get_root_hash, get_next_leaf_proof;                      *)
(*   - the state-access interface (src/src/emulator/i-state-access.h)      *)
(*     with a direct and a logging implementation, and the step-log        *)
(*     verifier that replays an access log.                                *)
(* Hashes are modelled as terms, so the hasher is collision free: a leaf   *)
(* or word hash is a 1-tuple <<n>>, a concatenation hash is the pair of    *)
(* its two children.                                                       *)
(***************************************************************************)
EXTENDS Integers, Sequences, FiniteSets, TLC

VARIABLES
    constructed,       \* "none" before new, "ok" once built, "failed" when the constructor threw
    args,              \* the triple handed to the constructor
    ctor_shift,        \* the shift amount the member initialiser of m_max_leaves evaluated
    m_log2_root_size,
    m_log2_leaf_size,
    m_log2_word_size,  \* parameter of m_pristine_hashes
    m_leaf_count,
    m_max_leaves,
    m_context,
    pushed,            \* history: the leaf hashes appended so far, in order
    ret,               \* outcome of the last call: [op, err, msg, val]
    state_direct,      \* machine state driven through the direct state access
    state_logged,      \* machine state driven through the logging state access
    access_log,        \* the access log the logging state access has appended to
    pre_state,         \* history: the machine state the step started from
    lua_result,        \* outcome of the last Lua binding call: [method, lua_args, status, values, message, call]
    cm_objects,        \* the C objects the bindings wrapped, in creation order
    cm_last_error,     \* what cm_get_last_error_message() returns
    lua_types,         \* the types registered in the Lua context
    machine_class,     \* the machine class type of the context: [created, methods, metamethods, htif, installed]
    cartesi,           \* the table clua_machine_export fills: [machine |-> [table, metatable]]
    init_calls         \* history: how often clua_machine_init has run

tree_vars == <<m_log2_root_size, m_log2_leaf_size, m_log2_word_size,
               m_leaf_count, m_max_leaves, m_context>>

vars == <<constructed, args, ctor_shift, m_log2_root_size, m_log2_leaf_size,
          m_log2_word_size, m_leaf_count, m_max_leaves, m_context, pushed, ret,
          state_direct, state_logged, access_log, pre_state,
          lua_result, cm_objects, cm_last_error,
          lua_types, machine_class, cartesi, init_calls>>

back_vars == <<constructed, args, ctor_shift, m_log2_root_size, m_log2_leaf_size,
               m_log2_word_size, m_leaf_count, m_max_leaves, m_context, pushed>>

step_vars == <<state_direct, state_logged, access_log, pre_state>>

class_vars == <<lua_types, machine_class, cartesi, init_calls>>

lua_vars == <<lua_result, cm_objects, cm_last_error,
              lua_types, machine_class, cartesi, init_calls>>

(***************************************************************************)
(* Bounds and program constants                                            *)
(***************************************************************************)
\* largest log2_root_size of the small triples the model enumerates
MaxLog2Root == 3

\* std::numeric_limits<address_type>::digits, address_type being uint64_t
AddressDigits == 64

Max(a, b) == IF a >= b THEN a ELSE b

\* bit i of n:  n & (address_type{1} << i)
BitSet(n, i) == (n \div (2 ^ i)) % 2 = 1

\* a << n on values that stay inside the address word
ShiftLeft(a, n) == IF a = 0 THEN 0 ELSE a * (2 ^ n)

(***************************************************************************)
(* Hasher and pristine hashes                                              *)
(***************************************************************************)
\* value-initialised hash_type (all bytes zero)
ZeroHash == <<0>>

\* hash of the pristine (all-zero) word
PristineWordHash == <<1>>

\* a leaf hash that is not the hash of a pristine subtree
DataHash == <<2>>

\* get_concat_hash(h, left, right, result)
ConcatHash(left, right) == <<left, right>>

\* pristine_merkle_tree::get_hash(log2_size) of a table built for log2_word_size
RECURSIVE PristineHash(_, _)
PristineHash(log2_size, log2_word_size) ==
    IF log2_size <= log2_word_size
    THEN PristineWordHash
    ELSE LET child == PristineHash(log2_size - 1, log2_word_size)
         IN ConcatHash(child, child)

(***************************************************************************)
(* Machine state, its Merkle tree and word proofs                          *)
(***************************************************************************)
\* log2 of the bytes of a machine word (uint64_t)
Log2WordSize == 3

\* the state components the step model carries, one word each
Components == <<"pc", "register", "iflags_H", "memory">>

\* the values a word takes; 0 is the pristine word
Values == {0, 1}

WordIndexes == 0 .. (Len(Components) - 1)

\* log2 of the bytes the machine tree spans: 2^Log2WordSize bytes per component
RECURSIVE Log2Ceil(_)
Log2Ceil(n) == IF n <= 1 THEN 0 ELSE 1 + Log2Ceil((n + 1) \div 2)

Log2MachineRoot == Log2WordSize + Log2Ceil(Len(Components))

PristineState == [i \in WordIndexes |-> 0]

MachineStates == [WordIndexes -> Values]

\* hasher applied to one word; the pristine word hashes to PristineWordHash
WordHash(word) == <<word + 1>>

\* word index of a component
ComponentIndex(component) == CHOOSE i \in WordIndexes : Components[i + 1] = component

\* byte address of the word of a component
ComponentAddress(component) == ComponentIndex(component) * (2 ^ Log2WordSize)

WordAddresses == {i * (2 ^ Log2WordSize) : i \in WordIndexes}

AddressIndex(address) == address \div (2 ^ Log2WordSize)

\* level k of the machine tree (level 0 being the word hashes)
RECURSIVE MachineLevel(_, _)
MachineLevel(s, k) ==
    IF k = 0
    THEN [j \in 1 .. Len(Components) |-> WordHash(s[j - 1])]
    ELSE LET below == MachineLevel(s, k - 1)
         IN [j \in 1 .. (Len(below) \div 2) |-> ConcatHash(below[2 * j - 1], below[2 * j])]

\* the Merkle root of a machine state
MachineRoot(s) == MachineLevel(s, Log2MachineRoot - Log2WordSize)[1]

\* the sibling at level k of the path from word index to the root
MachineSibling(s, index, k) ==
    LET node == index \div (2 ^ k)
    IN MachineLevel(s, k)[IF node % 2 = 0 THEN node + 2 ELSE node]

\* the word proof of address against the root of s
MachineProof(s, address) ==
    [log2_root_size   |-> Log2MachineRoot,
     log2_target_size |-> Log2WordSize,
     target_address   |-> address,
     target_hash      |-> WordHash(s[AddressIndex(address)]),
     sibling_hashes   |-> [l \in Log2WordSize .. (Log2MachineRoot - 1) |->
                              MachineSibling(s, AddressIndex(address), l - Log2WordSize)],
     root_hash        |-> MachineRoot(s)]

(***************************************************************************)
(* i_state_access: the interface forwards each call to the derived class   *)
(***************************************************************************)
\* mutant: the catalog lacks write_pc
Forwarding_NoWritePc ==
    {<<"read_pc", "do_read_pc">>,
     <<"read_register", "do_read_register">>,
     <<"write_register", "do_write_register">>,
     <<"read_iflags_H", "do_read_iflags_H">>,
     <<"set_iflags_H", "do_set_iflags_H">>,
     <<"read_memory", "do_write_memory">>,
     <<"write_memory", "do_write_memory">>}

\* <<interface method, method of the derived class it calls>>
Forwarding ==
    {<<"read_register", "do_read_register">>,
     <<"write_register", "do_write_register">>,
     <<"read_pc", "do_read_pc">>,
     <<"write_pc", "do_write_pc">>,
     <<"read_minstret", "do_read_minstret">>,
     <<"write_minstret", "do_write_minstret">>,
     <<"read_mcycle", "do_read_mcycle">>,
     <<"write_mcycle", "do_write_mcycle">>,
     <<"read_mstatus", "do_read_mstatus">>,
     <<"write_mstatus", "do_write_mstatus">>,
     <<"read_mtvec", "do_read_mtvec">>,
     <<"write_mtvec", "do_write_mtvec">>,
     <<"read_mscratch", "do_read_mscratch">>,
     <<"write_mscratch", "do_write_mscratch">>,
     <<"read_mepc", "do_read_mepc">>,
     <<"write_mepc", "do_write_mepc">>,
     <<"read_mcause", "do_read_mcause">>,
     <<"write_mcause", "do_write_mcause">>,
     <<"read_mtval", "do_read_mtval">>,
     <<"write_mtval", "do_write_mtval">>,
     <<"read_misa", "do_read_misa">>,
     <<"write_misa", "do_write_misa">>,
     <<"read_mie", "do_read_mie">>,
     <<"write_mie", "do_write_mie">>,
     <<"read_mip", "do_read_mip">>,
     <<"write_mip", "do_write_mip">>,
     <<"read_medeleg", "do_read_medeleg">>,
     <<"write_medeleg", "do_write_medeleg">>,
     <<"read_mideleg", "do_read_mideleg">>,
     <<"write_mideleg", "do_write_mideleg">>,
     <<"read_mcounteren", "do_read_mcounteren">>,
     <<"write_mcounteren", "do_write_mcounteren">>,
     <<"read_stvec", "do_read_stvec">>,
     <<"write_stvec", "do_write_stvec">>,
     <<"read_sscratch", "do_read_sscratch">>,
     <<"write_sscratch", "do_write_sscratch">>,
     <<"read_sepc", "do_read_sepc">>,
     <<"write_sepc", "do_write_sepc">>,
     <<"read_scause", "do_read_scause">>,
     <<"write_scause", "do_write_scause">>,
     <<"read_stval", "do_read_stval">>,
     <<"write_stval", "do_write_stval">>,
     <<"read_satp", "do_read_satp">>,
     <<"write_satp", "do_write_satp">>,
     <<"read_scounteren", "do_read_scounteren">>,
     <<"write_scounteren", "do_write_scounteren">>,
     <<"read_ilrsc", "do_read_ilrsc">>,
     <<"write_ilrsc", "do_write_ilrsc">>,
     <<"set_iflags_H", "do_set_iflags_H">>,
     <<"read_iflags_H", "do_read_iflags_H">>,
     <<"reset_iflags_I", "do_reset_iflags_I">>,
     <<"read_iflags_I", "do_read_iflags_I">>,
     <<"read_iflags_PRV", "do_read_iflags_PRV">>,
     <<"write_iflags_PRV", "do_write_iflags_PRV">>,
     <<"read_mtimecmp", "do_read_mtimecmp">>,
     <<"write_mtimecmp", "do_write_mtimecmp">>,
     <<"read_fromhost", "do_read_fromhost">>,
     <<"write_fromhost", "do_write_fromhost">>,
     <<"read_tohost", "do_read_tohost">>,
     <<"write_tohost", "do_write_tohost">>,
     <<"read_pma", "do_read_pma">>,
     <<"read_memory", "do_write_memory">>,
     <<"write_memory", "do_write_memory">>}

InterfaceMethods == {p[1] : p \in Forwarding}

\* the do_ method an interface method forwards to
Forward(method) == (CHOOSE p \in Forwarding : p[1] = method)[2]

\* <<method name, its verb (read, write, set, reset), the component it names>>,
\* for the interface methods and the do_ methods of the derived class
MethodNames ==
    {<<"read_register", "read", "register">>,
     <<"do_read_register", "read", "register">>,
     <<"write_register", "write", "register">>,
     <<"do_write_register", "write", "register">>,
     <<"read_pc", "read", "pc">>,
     <<"do_read_pc", "read", "pc">>,
     <<"write_pc", "write", "pc">>,
     <<"do_write_pc", "write", "pc">>,
     <<"read_minstret", "read", "minstret">>,
     <<"do_read_minstret", "read", "minstret">>,
     <<"write_minstret", "write", "minstret">>,
     <<"do_write_minstret", "write", "minstret">>,
     <<"read_mcycle", "read", "mcycle">>,
     <<"do_read_mcycle", "read", "mcycle">>,
     <<"write_mcycle", "write", "mcycle">>,
     <<"do_write_mcycle", "write", "mcycle">>,
     <<"read_mstatus", "read", "mstatus">>,
     <<"do_read_mstatus", "read", "mstatus">>,
     <<"write_mstatus", "write", "mstatus">>,
     <<"do_write_mstatus", "write", "mstatus">>,
     <<"read_mtvec", "read", "mtvec">>,
     <<"do_read_mtvec", "read", "mtvec">>,
     <<"write_mtvec", "write", "mtvec">>,
     <<"do_write_mtvec", "write", "mtvec">>,
     <<"read_mscratch", "read", "mscratch">>,
     <<"do_read_mscratch", "read", "mscratch">>,
     <<"write_mscratch", "write", "mscratch">>,
     <<"do_write_mscratch", "write", "mscratch">>,
     <<"read_mepc", "read", "mepc">>,
     <<"do_read_mepc", "read", "mepc">>,
     <<"write_mepc", "write", "mepc">>,
     <<"do_write_mepc", "write", "mepc">>,
     <<"read_mcause", "read", "mcause">>,
     <<"do_read_mcause", "read", "mcause">>,
     <<"write_mcause", "write", "mcause">>,
     <<"do_write_mcause", "write", "mcause">>,
     <<"read_mtval", "read", "mtval">>,
     <<"do_read_mtval", "read", "mtval">>,
     <<"write_mtval", "write", "mtval">>,
     <<"do_write_mtval", "write", "mtval">>,
     <<"read_misa", "read", "misa">>,
     <<"do_read_misa", "read", "misa">>,
     <<"write_misa", "write", "misa">>,
     <<"do_write_misa", "write", "misa">>,
     <<"read_mie", "read", "mie">>,
     <<"do_read_mie", "read", "mie">>,
     <<"write_mie", "write", "mie">>,
     <<"do_write_mie", "write", "mie">>,
     <<"read_mip", "read", "mip">>,
     <<"do_read_mip", "read", "mip">>,
     <<"write_mip", "write", "mip">>,
     <<"do_write_mip", "write", "mip">>,
     <<"read_medeleg", "read", "medeleg">>,
     <<"do_read_medeleg", "read", "medeleg">>,
     <<"write_medeleg", "write", "medeleg">>,
     <<"do_write_medeleg", "write", "medeleg">>,
     <<"read_mideleg", "read", "mideleg">>,
     <<"do_read_mideleg", "read", "mideleg">>,
     <<"write_mideleg", "write", "mideleg">>,
     <<"do_write_mideleg", "write", "mideleg">>,
     <<"read_mcounteren", "read", "mcounteren">>,
     <<"do_read_mcounteren", "read", "mcounteren">>,
     <<"write_mcounteren", "write", "mcounteren">>,
     <<"do_write_mcounteren", "write", "mcounteren">>,
     <<"read_stvec", "read", "stvec">>,
     <<"do_read_stvec", "read", "stvec">>,
     <<"write_stvec", "write", "stvec">>,
     <<"do_write_stvec", "write", "stvec">>,
     <<"read_sscratch", "read", "sscratch">>,
     <<"do_read_sscratch", "read", "sscratch">>,
     <<"write_sscratch", "write", "sscratch">>,
     <<"do_write_sscratch", "write", "sscratch">>,
     <<"read_sepc", "read", "sepc">>,
     <<"do_read_sepc", "read", "sepc">>,
     <<"write_sepc", "write", "sepc">>,
     <<"do_write_sepc", "write", "sepc">>,
     <<"read_scause", "read", "scause">>,
     <<"do_read_scause", "read", "scause">>,
     <<"write_scause", "write", "scause">>,
     <<"do_write_scause", "write", "scause">>,
     <<"read_stval", "read", "stval">>,
     <<"do_read_stval", "read", "stval">>,
     <<"write_stval", "write", "stval">>,
     <<"do_write_stval", "write", "stval">>,
     <<"read_satp", "read", "satp">>,
     <<"do_read_satp", "read", "satp">>,
     <<"write_satp", "write", "satp">>,
     <<"do_write_satp", "write", "satp">>,
     <<"read_scounteren", "read", "scounteren">>,
     <<"do_read_scounteren", "read", "scounteren">>,
     <<"write_scounteren", "write", "scounteren">>,
     <<"do_write_scounteren", "write", "scounteren">>,
     <<"read_ilrsc", "read", "ilrsc">>,
     <<"do_read_ilrsc", "read", "ilrsc">>,
     <<"write_ilrsc", "write", "ilrsc">>,
     <<"do_write_ilrsc", "write", "ilrsc">>,
     <<"set_iflags_H", "set", "iflags_H">>,
     <<"do_set_iflags_H", "set", "iflags_H">>,
     <<"read_iflags_H", "read", "iflags_H">>,
     <<"do_read_iflags_H", "read", "iflags_H">>,
     <<"reset_iflags_I", "reset", "iflags_I">>,
     <<"do_reset_iflags_I", "reset", "iflags_I">>,
     <<"read_iflags_I", "read", "iflags_I">>,
     <<"do_read_iflags_I", "read", "iflags_I">>,
     <<"read_iflags_PRV", "read", "iflags_PRV">>,
     <<"do_read_iflags_PRV", "read", "iflags_PRV">>,
     <<"write_iflags_PRV", "write", "iflags_PRV">>,
     <<"do_write_iflags_PRV", "write", "iflags_PRV">>,
     <<"read_mtimecmp", "read", "mtimecmp">>,
     <<"do_read_mtimecmp", "read", "mtimecmp">>,
     <<"write_mtimecmp", "write", "mtimecmp">>,
     <<"do_write_mtimecmp", "write", "mtimecmp">>,
     <<"read_fromhost", "read", "fromhost">>,
     <<"do_read_fromhost", "read", "fromhost">>,
     <<"write_fromhost", "write", "fromhost">>,
     <<"do_write_fromhost", "write", "fromhost">>,
     <<"read_tohost", "read", "tohost">>,
     <<"do_read_tohost", "read", "tohost">>,
     <<"write_tohost", "write", "tohost">>,
     <<"do_write_tohost", "write", "tohost">>,
     <<"read_pma", "read", "pma">>,
     <<"do_read_pma", "read", "pma">>,
     <<"read_memory", "read", "memory">>,
     <<"do_write_memory", "write", "memory">>,
     <<"write_memory", "write", "memory">>,
     <<"do_read_memory", "read", "memory">>}

MethodNameOf == [method \in {n[1] : n \in MethodNames} |->
                    CHOOSE n \in MethodNames : n[1] = method]

MethodVerb(method) == MethodNameOf[method][2]

MethodComponent(method) == MethodNameOf[method][3]

\* the state components the interface names
CatalogComponents == {MethodComponent(m) : m \in InterfaceMethods}

\* the interface methods of a component with one of the verbs
CatalogMethods(component, verbs) ==
    {m \in InterfaceMethods : MethodComponent(m) = component /\ MethodVerb(m) \in verbs}

(***************************************************************************)
(* The two implementations of the do_ methods                              *)
(***************************************************************************)
\* what a do_ method of the step model does, and to which component
DoTable ==
    {<<"do_read_pc", "read", "pc">>,
     <<"do_write_pc", "write", "pc">>,
     <<"do_read_register", "read", "register">>,
     <<"do_write_register", "write", "register">>,
     <<"do_read_iflags_H", "read", "iflags_H">>,
     <<"do_set_iflags_H", "set", "iflags_H">>,
     <<"do_read_memory", "read", "memory">>,
     <<"do_write_memory", "write", "memory">>}

DoEntry(do_method) == CHOOSE e \in DoTable : e[1] = do_method

DoKind(do_method) == DoEntry(do_method)[2]

DoAddress(do_method) == ComponentAddress(DoEntry(do_method)[3])

\* the word a do_ method leaves at its address
DoResult(do_method, old, val) ==
    CASE DoKind(do_method) = "read"  -> old
      [] DoKind(do_method) = "write" -> val
      [] DoKind(do_method) = "set"   -> 1

\* state_access: the raw access, nothing logged
DirectDo(do_method, s, val) ==
    LET index == AddressIndex(DoAddress(do_method))
    IN [s EXCEPT ![index] = DoResult(do_method, s[index], val)]

\* mutant: the record carries the post-access value as the value read
RecordReadValue_PostValue(old, new) == new

\* the pre-access value a record carries
RecordReadValue(old, new) == old

\* logged_state_access: the record appended for one access
LoggedRecord(do_method, s, val) ==
    LET address == DoAddress(do_method)
        old     == s[AddressIndex(address)]
        new     == DoResult(do_method, old, val)
    IN [kind          |-> IF DoKind(do_method) = "read" THEN "read" ELSE "write",
        address       |-> address,
        read_value    |-> RecordReadValue(old, new),
        written_value |-> new,
        proof         |-> MachineProof(s, address)]

\* logged_state_access: the same access, and its record appended to the log
LoggedDo(do_method, s, log, val) ==
    [state |-> DirectDo(do_method, s, val),
     log   |-> Append(log, LoggedRecord(do_method, s, val))]

(***************************************************************************)
(* back_merkle_tree::back_merkle_tree                                      *)
(***************************************************************************)
\* mutant: the word-size check compares log2_word_size with itself
CtorWordCheck_SelfCompare(log2_leaf_size, log2_word_size) == log2_word_size > log2_word_size

\* the checks of the constructor body, in order; "" when none throws
CtorWordCheck(log2_leaf_size, log2_word_size) == log2_word_size > log2_leaf_size

CtorError(log2_root_size, log2_leaf_size, log2_word_size) ==
    IF log2_root_size < 0 THEN "log2_root_size is negative"
    ELSE IF log2_leaf_size < 0 THEN "log2_leaf_size is negative"
    ELSE IF log2_word_size < 0 THEN "log2_word_size is negative"
    ELSE IF log2_leaf_size > log2_root_size
         THEN "log2_leaf_size is greater than log2_root_size"
    ELSE IF CtorWordCheck(log2_leaf_size, log2_word_size)
         THEN "log2_word_size is greater than log2_word_size"
    ELSE IF log2_root_size >= AddressDigits
         THEN "tree is too large for address type"
    ELSE ""

\* the triples the model hands to the constructor: every small triple, valid
\* or not, and the triples at the edge of the address word
SmallSizes == (0 - 1) .. (MaxLog2Root + 1)

CtorArgs ==
    {t \in SmallSizes \X SmallSizes \X SmallSizes : t[1] <= MaxLog2Root}
    \cup {<<AddressDigits - 1, AddressDigits - 1, AddressDigits - 1>>,
          <<AddressDigits, AddressDigits, AddressDigits>>,
          <<AddressDigits, AddressDigits - 1, 0>>}

NoRet == [op |-> "none", err |-> "none", msg |-> "", val |-> <<>>]

\* no C API call was made
NoCall == [api |-> "none", args |-> <<>>, rc |-> 0]

\* no binding has been called yet
NoLuaResult == [method |-> "none", lua_args |-> <<>>, status |-> "none", values |-> <<>>,
                message |-> <<>>, call |-> NoCall]

\* the Lua side before any binding call
\* the context before clua_machine_init: no machine class
NoClass == [created |-> 0, methods |-> {}, metamethods |-> {}, htif |-> FALSE,
            installed |-> 0]

\* the target table before clua_machine_export: no field 'machine'
NoMachineField == [table |-> 0, metatable |-> 0]

LuaInit ==
    /\ lua_result = NoLuaResult
    /\ cm_objects = <<>>
    /\ cm_last_error = <<>>
    /\ lua_types = {}
    /\ machine_class = NoClass
    /\ cartesi = [machine |-> NoMachineField]
    /\ init_calls = 0

Init ==
    /\ constructed = "none"
    /\ args = <<0, 0, 0>>
    /\ ctor_shift = 0
    /\ m_log2_root_size = 0
    /\ m_log2_leaf_size = 0
    /\ m_log2_word_size = 0
    /\ m_leaf_count = 0
    /\ m_max_leaves = 0
    /\ m_context = <<>>
    /\ pushed = <<>>
    /\ ret = NoRet
    /\ state_direct = PristineState
    /\ state_logged = PristineState
    /\ access_log = <<>>
    /\ pre_state = PristineState
    /\ LuaInit

\* new(log2_root_size, log2_leaf_size, log2_word_size): the member
\* initialisers run first, then the body's checks throw or let the object live
New(log2_root_size, log2_leaf_size, log2_word_size) ==
    LET error == CtorError(log2_root_size, log2_leaf_size, log2_word_size)
        depth == log2_root_size - log2_leaf_size
    IN
    /\ constructed = "none"
    /\ UNCHANGED <<step_vars, lua_vars>>
    /\ args' = <<log2_root_size, log2_leaf_size, log2_word_size>>
    /\ ctor_shift' = depth
    /\ pushed' = <<>>
    /\ IF error # ""
       THEN /\ constructed' = "failed"
            /\ ret' = [op |-> "new", err |-> "out_of_range", msg |-> error, val |-> <<>>]
            /\ UNCHANGED tree_vars
       ELSE /\ constructed' = "ok"
            /\ ret' = [op |-> "new", err |-> "none", msg |-> "", val |-> <<>>]
            /\ m_log2_root_size' = log2_root_size
            /\ m_log2_leaf_size' = log2_leaf_size
            /\ m_log2_word_size' = log2_word_size
            /\ m_leaf_count' = 0
            /\ m_max_leaves' = 2 ^ depth
            /\ m_context' = [i \in 0 .. (Max(1, depth + 1) - 1) |-> ZeroHash]

(***************************************************************************)
(* back_merkle_tree::push_back                                             *)
(***************************************************************************)
\* mutant: the guard lets one leaf too many in
PushBackFull_OffByOne(leaf_count, max_leaves) == leaf_count > max_leaves

\* the guard that throws "too many leaves"
PushBackFull(leaf_count, max_leaves) == leaf_count >= max_leaves

\* mutant: the carry combines its operands in the wrong order
PushBackCarry_Swapped(left, right) == ConcatHash(right, left)

\* the carry step of the loop: right = H(context[i], right)
PushBackCarry(left, right) == ConcatHash(left, right)

\* the loop for (i = 0; i <= depth; ++i) started at index i with accumulator right
RECURSIVE PushBackLoop(_, _, _, _, _)
PushBackLoop(context, leaf_count, right, i, depth) ==
    IF i > depth
    THEN context
    ELSE IF BitSet(leaf_count, i)
         THEN PushBackLoop(context, leaf_count, PushBackCarry(context[i], right), i + 1, depth)
         ELSE [context EXCEPT ![i] = right]

\* the number of get_concat_hash calls of the loop started at index i
RECURSIVE PushBackHashCalls(_, _, _)
PushBackHashCalls(leaf_count, i, depth) ==
    IF i > depth
    THEN 0
    ELSE IF BitSet(leaf_count, i)
         THEN 1 + PushBackHashCalls(leaf_count, i + 1, depth)
         ELSE 0

PushBack(leaf_hash) ==
    /\ constructed = "ok"
    /\ UNCHANGED <<constructed, args, ctor_shift, m_log2_root_size, m_log2_leaf_size,
                   m_log2_word_size, m_max_leaves, step_vars, lua_vars>>
    /\ IF PushBackFull(m_leaf_count, m_max_leaves)
       THEN /\ ret' = [op |-> "push_back", err |-> "out_of_range",
                       msg |-> "too many leaves", val |-> <<>>]
            /\ UNCHANGED <<m_leaf_count, m_context, pushed>>
       ELSE /\ m_context' = PushBackLoop(m_context, m_leaf_count, leaf_hash, 0,
                                         m_log2_root_size - m_log2_leaf_size)
            /\ m_leaf_count' = m_leaf_count + 1
            /\ pushed' = Append(pushed, leaf_hash)
            /\ ret' = [op |-> "push_back", err |-> "none", msg |-> "",
                       val |-> <<PushBackHashCalls(m_leaf_count, 0,
                                                   m_log2_root_size - m_log2_leaf_size)>>]

(***************************************************************************)
(* back_merkle_tree::get_root_hash                                         *)
(***************************************************************************)
\* one level of the fold of get_root_hash and get_next_leaf_proof
FoldLevel(context, leaf_count, hash, i, log2_leaf_size, log2_word_size) ==
    IF BitSet(leaf_count, i)
    THEN ConcatHash(context[i], hash)
    ELSE ConcatHash(hash, PristineHash(log2_leaf_size + i, log2_word_size))

\* the loop for (i = 0; i < depth; ++i) started at level i with accumulator root
RECURSIVE RootLoop(_, _, _, _, _, _, _)
RootLoop(context, leaf_count, root, i, depth, log2_leaf_size, log2_word_size) ==
    IF i >= depth
    THEN root
    ELSE RootLoop(context, leaf_count,
                  FoldLevel(context, leaf_count, root, i, log2_leaf_size, log2_word_size),
                  i + 1, depth, log2_leaf_size, log2_word_size)

\* the value get_root_hash returns when its assertion holds
RootHash(context, leaf_count, max_leaves, log2_root_size, log2_leaf_size, log2_word_size) ==
    LET depth == log2_root_size - log2_leaf_size
    IN IF leaf_count < max_leaves
       THEN RootLoop(context, leaf_count, PristineHash(log2_leaf_size, log2_word_size),
                     0, depth, log2_leaf_size, log2_word_size)
       ELSE context[depth]

\* get_root_hash() on the current tree
CurrentRoot ==
    RootHash(m_context, m_leaf_count, m_max_leaves,
             m_log2_root_size, m_log2_leaf_size, m_log2_word_size)

\* mutant: the query restarts the leaf count
GetRootHash_ClearsCount ==
    /\ constructed = "ok"
    /\ UNCHANGED <<constructed, args, ctor_shift, m_log2_root_size, m_log2_leaf_size,
                   m_log2_word_size, m_max_leaves, m_context, pushed, step_vars, lua_vars>>
    /\ m_leaf_count' = 0
    /\ ret' = [op |-> "get_root_hash", err |-> "none", msg |-> "", val |-> CurrentRoot]

\* get_root_hash() const
GetRootHash ==
    /\ constructed = "ok"
    /\ UNCHANGED <<constructed, args, ctor_shift, tree_vars, pushed, step_vars, lua_vars>>
    /\ IF ~(m_leaf_count <= m_max_leaves)
       THEN ret' = [op |-> "get_root_hash", err |-> "assert",
                    msg |-> "m_leaf_count <= m_max_leaves", val |-> <<>>]
       ELSE ret' = [op |-> "get_root_hash", err |-> "none", msg |-> "", val |-> CurrentRoot]

(***************************************************************************)
(* merkle_tree_proof and back_merkle_tree::get_next_leaf_proof             *)
(***************************************************************************)
\* merkle_tree_proof::verify: fold target_hash through the siblings by the
\* bits of target_address, from log2_target_size up to log2_root_size
RECURSIVE ProofFold(_, _, _, _, _)
ProofFold(hash, target_address, sibling_hashes, log2_size, log2_root_size) ==
    IF log2_size >= log2_root_size
    THEN hash
    ELSE ProofFold(IF BitSet(target_address, log2_size)
                   THEN ConcatHash(sibling_hashes[log2_size], hash)
                   ELSE ConcatHash(hash, sibling_hashes[log2_size]),
                   target_address, sibling_hashes, log2_size + 1, log2_root_size)

ProofVerify(proof) ==
    ProofFold(proof.target_hash, proof.target_address, proof.sibling_hashes,
              proof.log2_target_size, proof.log2_root_size) = proof.root_hash

\* mutant: the guard already refuses the last free position
NextLeafProofFull_OneEarly(leaf_count, max_leaves) == leaf_count + 1 >= max_leaves

\* the guard that throws "tree is full"
NextLeafProofFull(leaf_count, max_leaves) == leaf_count >= max_leaves

\* mutant: the sibling is taken from the context whatever the bit says
NextLeafSibling_AlwaysContext(context, leaf_count, i, log2_leaf_size, log2_word_size) ==
    context[i]

\* the sibling recorded at level i
NextLeafSibling(context, leaf_count, i, log2_leaf_size, log2_word_size) ==
    IF BitSet(leaf_count, i)
    THEN context[i]
    ELSE PristineHash(log2_leaf_size + i, log2_word_size)

\* the proof get_next_leaf_proof builds when the tree is not full
NextLeafProof(context, leaf_count, log2_root_size, log2_leaf_size, log2_word_size) ==
    LET depth == log2_root_size - log2_leaf_size
    IN [log2_root_size   |-> log2_root_size,
        log2_target_size |-> log2_leaf_size,
        target_address   |-> ShiftLeft(leaf_count, log2_leaf_size),
        target_hash      |-> PristineHash(log2_leaf_size, log2_word_size),
        sibling_hashes   |-> [s \in log2_leaf_size .. (log2_root_size - 1) |->
                                 NextLeafSibling(context, leaf_count, s - log2_leaf_size,
                                                 log2_leaf_size, log2_word_size)],
        root_hash        |-> RootLoop(context, leaf_count,
                                      PristineHash(log2_leaf_size, log2_word_size),
                                      0, depth, log2_leaf_size, log2_word_size)]

\* get_next_leaf_proof() on the current tree
CurrentProof ==
    NextLeafProof(m_context, m_leaf_count, m_log2_root_size, m_log2_leaf_size,
                  m_log2_word_size)

\* debug build: the produced proof is verified before it is returned
GetNextLeafProof ==
    /\ constructed = "ok"
    /\ UNCHANGED <<constructed, args, ctor_shift, tree_vars, pushed, step_vars, lua_vars>>
    /\ IF NextLeafProofFull(m_leaf_count, m_max_leaves)
       THEN ret' = [op |-> "get_next_leaf_proof", err |-> "out_of_range",
                    msg |-> "tree is full", val |-> <<>>]
       ELSE IF ~ProofVerify(CurrentProof)
            THEN ret' = [op |-> "get_next_leaf_proof", err |-> "runtime_error",
                         msg |-> "produced invalid proof", val |-> <<>>]
            ELSE ret' = [op |-> "get_next_leaf_proof", err |-> "none", msg |-> "",
                         val |-> CurrentProof]

(***************************************************************************)
(* Step-log verifier: the core loop                                        *)
(***************************************************************************)
\* mutant: the logged value is not checked against the target hash
VerifyValueCheck_Skipped(record) == TRUE

\* the check of the logged pre-access value against the proof's target hash
VerifyValueCheck(record) == record.proof.target_hash = WordHash(record.read_value)

\* the root after a write: the written word folded through the proof's siblings
RootAfterWrite(record) ==
    ProofFold(WordHash(record.written_value), record.address,
              record.proof.sibling_hashes, record.proof.log2_target_size,
              record.proof.log2_root_size)

\* the proof is verified at the record's address
RecordProofVerify(record) ==
    ProofFold(record.proof.target_hash, record.address, record.proof.sibling_hashes,
              record.proof.log2_target_size, record.proof.log2_root_size)
        = record.proof.root_hash

\* the loop over the records from position i with the running root current
RECURSIVE VerifyFrom(_, _, _, _)
VerifyFrom(current_root, log, i, expected_post_root) ==
    IF i > Len(log)
    THEN IF current_root # expected_post_root THEN "final-root mismatch" ELSE "ok"
    ELSE LET record == log[i]
         IN IF record.proof.root_hash # current_root THEN "root mismatch"
            ELSE IF ~RecordProofVerify(record) THEN "invalid access proof"
            ELSE IF ~VerifyValueCheck(record) THEN "value/hash mismatch"
            ELSE VerifyFrom(IF record.kind = "write" THEN RootAfterWrite(record)
                                                     ELSE current_root,
                            log, i + 1, expected_post_root)

\* verify_step_transition(pre_root, log, expected_post_root)
VerifyStepTransition(pre_root, log, expected_post_root) ==
    VerifyFrom(pre_root, log, 1, expected_post_root)

\* the leaf hashes the model appends: a data leaf or the pristine leaf
LeafHashes == {DataHash, PristineHash(m_log2_leaf_size, m_log2_word_size)}

Next ==
    \/ \E t \in CtorArgs : New(t[1], t[2], t[3])
    \/ \E leaf_hash \in LeafHashes : PushBack(leaf_hash)
    \/ GetRootHash
    \/ GetNextLeafProof

Spec == Init /\ [][Next]_vars

(***************************************************************************)
(* One step of the interpreter: the same accesses through both             *)
(* implementations of the interface                                        *)
(***************************************************************************)
\* the longest access log the model builds
MaxLogLen == 2

\* the interface methods the step model calls
StepMethods ==
    {"read_pc", "write_pc", "read_register", "write_register",
     "read_iflags_H", "set_iflags_H", "read_memory", "write_memory"}

\* the step starts from any machine state, the log empty
InitStep ==
    /\ constructed = "none"
    /\ args = <<0, 0, 0>>
    /\ ctor_shift = 0
    /\ m_log2_root_size = 0
    /\ m_log2_leaf_size = 0
    /\ m_log2_word_size = 0
    /\ m_leaf_count = 0
    /\ m_max_leaves = 0
    /\ m_context = <<>>
    /\ pushed = <<>>
    /\ ret = NoRet
    /\ pre_state \in MachineStates
    /\ state_direct = pre_state
    /\ state_logged = pre_state
    /\ access_log = <<>>
    /\ LuaInit

\* the interpreter calls one interface method on both state accesses
Access(method, val) ==
    LET do_method == Forward(method)
        logged    == LoggedDo(do_method, state_logged, access_log, val)
    IN /\ Len(access_log) < MaxLogLen
       /\ state_direct' = DirectDo(do_method, state_direct, val)
       /\ state_logged' = logged.state
       /\ access_log' = logged.log
       /\ ret' = [op |-> method, err |-> "none", msg |-> "", val |-> <<val>>]
       /\ UNCHANGED <<back_vars, pre_state, lua_vars>>

NextStep == \E method \in StepMethods, val \in Values : Access(method, val)

SpecStep == InitStep /\ [][NextStep]_vars

(***************************************************************************)
(* The Lua bindings of the machine class (src/src/clua-machine.cpp)        *)
(***************************************************************************)
\* the most calls of clua_machine_init the model makes
MaxInitCalls == 3

\* the managed pointer types clua_machine_init registers with clua_createnewtype
ManagedTypes ==
    {"cm_access_log", "cm_merkle_tree_proof", "char", "unsigned char",
     "cm_memory_range_descr_array"}

\* machine_class_index: the methods of the machine class
MachineClassIndex ==
    {"get_default_config", "verify_step_uarch_log", "verify_step_uarch_state_transition",
     "verify_reset_uarch_log", "verify_reset_uarch_state_transition", "get_csr_address",
     "verify_send_cmio_response_log", "verify_send_cmio_response_state_transition"}

\* machine_class_meta
MachineClassMeta == {"__call"}

\* mutant: the class is set up on every call
ClassInitNeeded_Always(types) == TRUE

\* if (!clua_typeexists<machine_class>(L, ctxidx))
ClassInitNeeded(types) == "machine_class" \notin types

\* clua_machine_init on a context with these types and this machine class:
\* clua_createnewtype adds a type the context lacks; clua_createtype makes a
\* new class type, which then gets its methods, __call and the HTIF constants
MachineInit(types, class) ==
    LET with_managed == types \cup ManagedTypes
    IN IF ClassInitNeeded(with_managed)
       THEN [types |-> with_managed \cup {"machine_class"},
             class |-> [created     |-> class.created + 1,
                        methods     |-> MachineClassIndex,
                        metamethods |-> MachineClassMeta,
                        htif        |-> TRUE,
                        installed   |-> class.installed + 1]]
       ELSE [types |-> with_managed, class |-> class]

CluaMachineInit ==
    LET after == MachineInit(lua_types, machine_class)
    IN /\ init_calls < MaxInitCalls
       /\ init_calls' = init_calls + 1
       /\ lua_types' = after.types
       /\ machine_class' = after.class
       /\ UNCHANGED <<back_vars, ret, step_vars, lua_result, cm_objects, cm_last_error,
                      cartesi>>

\* clua_machine_export: init, then a new table with the class's metatable
\* becomes the field 'machine' of the target table
CluaMachineExport ==
    LET after == MachineInit(lua_types, machine_class)
    IN /\ init_calls < MaxInitCalls
       /\ init_calls' = init_calls + 1
       /\ lua_types' = after.types
       /\ machine_class' = after.class
       /\ cartesi' = [cartesi EXCEPT !.machine = [table     |-> cartesi.machine.table + 1,
                                                  metatable |-> after.class.created]]
       /\ UNCHANGED <<back_vars, ret, step_vars, lua_result, cm_objects, cm_last_error>>

\* a Lua script reaches a method or __call through the exported table
Callable(name) ==
    /\ cartesi.machine.table > 0
    /\ cartesi.machine.metatable = machine_class.created
    /\ name \in machine_class.methods \cup machine_class.metamethods

\* the most C objects the model lets the bindings wrap
MaxObjects == 2

\* what a C API call returns: 0 is success, anything else a cm_error
CmResults == {0 - 1, 0, 1}

\* Lua values are <<type, payload>>
LuaNil == <<"nil", "nil">>

\* mutant: the reason is passed on without the cast
ToUint16_NoTruncation(n) == n

\* static_cast<uint16_t> of a lua_Integer
ToUint16(n) == n % (2 ^ 16)

\* the reasons the model passes: three that differ by multiples of 2^16, one that does not
Reasons == {1, 1 + 2 ^ 16, 1 - 2 ^ 16, 2}

\* clua_value_to_json(...).dump() and nlohmann::json::parse
ToJson(value) == <<"json", value>>

JsonParse(json) == json[2]

\* the handlers of the six verify_ methods: the argument checks and
\* conversions in the order the code makes them, <<check, stack index>>, and
\* the C API function called with the converted values in this order
BindingTable ==
    {[method |-> "verify_step_uarch_log", api |-> "cm_verify_step_uarch_log",
      steps |-> <<<<"log", 1>>>>],
     [method |-> "verify_step_uarch_state_transition",
      api |-> "cm_verify_step_uarch_state_transition",
      steps |-> <<<<"hash", 1>>, <<"log", 2>>, <<"hash", 3>>>>],
     [method |-> "verify_reset_uarch_log", api |-> "cm_verify_reset_uarch_log",
      steps |-> <<<<"log", 1>>>>],
     [method |-> "verify_reset_uarch_state_transition",
      api |-> "cm_verify_reset_uarch_state_transition",
      steps |-> <<<<"hash", 1>>, <<"log", 2>>, <<"hash", 3>>>>],
     [method |-> "verify_send_cmio_response_log",
      api |-> "cm_verify_send_cmio_response_log",
      steps |-> <<<<"integer", 1>>, <<"lstring", 2>>, <<"log", 3>>>>],
     [method |-> "verify_send_cmio_response_state_transition",
      api |-> "cm_verify_send_cmio_response_state_transition",
      steps |-> <<<<"integer", 1>>, <<"lstring", 2>>, <<"hash", 3>>, <<"log", 4>>,
                  <<"hash", 5>>>>]}

VerifyMethods == {b.method : b \in BindingTable}

BindingOf == [method \in VerifyMethods |-> CHOOSE b \in BindingTable : b.method = method]

\* luaL_checkinteger, luaL_checklstring, clua_check_cm_hash and
\* clua_check_cm_access_log raise a Lua error on a value of the wrong type
CheckPasses(check, value) ==
    CASE check = "integer" -> value[1] = "integer"
      [] check = "lstring" -> value[1] \in {"string", "integer"}
      [] check = "hash"    -> value[1] = "hash"
      [] check = "log"     -> value[1] = "table"

\* the C value a passed check hands on
ConvertArg(check, value) ==
    CASE check = "integer" -> <<"uint16_t", ToUint16(value[2])>>
      [] check = "lstring" -> <<"data", value[2]>>
      [] check = "hash"    -> <<"cm_hash", value[2]>>
      [] check = "log"     -> <<"cm_access_log", value[2]>>

\* the values of the right type for a check
ValidValues(check) ==
    CASE check = "integer" -> {<<"integer", r>> : r \in Reasons}
      [] check = "lstring" -> {<<"string", "data">>}
      [] check = "hash"    -> {<<"hash", "hash">>}
      [] check = "log"     -> {<<"table", "log">>}

\* the argument lists the model passes to a method: all of the right type,
\* or nil at one position
ArgChoices ==
    [method \in VerifyMethods |->
        LET steps == BindingOf[method].steps
            valid == {a \in [DOMAIN steps -> UNION {ValidValues(c) :
                                  c \in {"integer", "lstring", "hash", "log"}}] :
                         \A i \in DOMAIN steps : a[i] \in ValidValues(steps[i][1])}
        IN valid \cup {[a EXCEPT ![i] = LuaNil] :
                          a \in {v \in valid : \A i \in DOMAIN steps :
                                     v[i][1] = "integer" => v[i][2] = 1},
                          i \in DOMAIN steps}]

\* the first step whose check raises, 0 when none does
FirstFailing(steps, lua_args) ==
    LET failing == {i \in DOMAIN steps : ~CheckPasses(steps[i][1], lua_args[steps[i][2]])}
    IN IF failing = {} THEN 0 ELSE CHOOSE i \in failing : \A j \in failing : i <= j

\* clua_managed_cm_ptr pushed on the Lua stack by clua_push_to: a userdata
\* that owns the C pointer; exit records how the call that made it ended
NewWrapper(kind, ptr) ==
    [kind |-> kind, ptr |-> ptr, releases |-> 0, finalised |-> FALSE,
     reachable |-> FALSE, exit |-> "error"]

\* clua_managed_cm_ptr::reset: release the C object if the pointer is set
Reset(wrapper) ==
    IF wrapper.ptr = "held"
    THEN [wrapper EXCEPT !.ptr = "null", !.releases = @ + 1]
    ELSE wrapper

\* the message the C API keeps for cm_get_last_error_message
CmLastError(rc) == IF rc = 0 THEN <<>> ELSE <<"cm_error", rc>>

\* mutant: only positive results are taken as failures
VerifyFailed_PositiveOnly(rc) == rc > 0

\* if (cm_verify_...(...) != 0) return luaL_error(...)
VerifyFailed(rc) == rc # 0

\* mutant: the success path forgets the reset
VerifySucceeded_NoReset(log) == [log EXCEPT !.exit = "success"]

\* lua_pushnumber(L, 1); managed_log.reset(); return 1
VerifySucceeded(log) == [Reset(log) EXCEPT !.exit = "success"]

\* one call of a verify_ method: the checks in order, the log wrapped when
\* its conversion is reached, the C API call, then the error or the number 1
VerifyCall(method, lua_args) ==
    LET binding  == BindingOf[method]
        steps    == binding.steps
        failing  == FirstFailing(steps, lua_args)
        log_step == CHOOSE i \in DOMAIN steps : steps[i][1] = "log"
        log      == NewWrapper("cm_access_log", "held")
    IN /\ Callable(method)
       /\ Len(cm_objects) < MaxObjects
       /\ UNCHANGED <<back_vars, ret, step_vars, class_vars>>
       /\ IF failing # 0
          THEN /\ lua_result' = [method |-> method, lua_args |-> lua_args, status |-> "error", values |-> <<>>,
                                 message |-> <<"bad argument", steps[failing][2]>>,
                                 call |-> NoCall]
               /\ cm_objects' = IF failing > log_step
                                THEN Append(cm_objects, log)
                                ELSE cm_objects
               /\ UNCHANGED cm_last_error
          ELSE \E rc \in CmResults :
                  LET call == [api |-> binding.api,
                               args |-> [i \in DOMAIN steps |->
                                            ConvertArg(steps[i][1], lua_args[steps[i][2]])],
                               rc |-> rc]
                  IN /\ cm_last_error' = CmLastError(rc)
                     /\ IF VerifyFailed(rc)
                        THEN /\ lua_result' = [method |-> method, lua_args |-> lua_args, status |-> "error",
                                               values |-> <<>>, message |-> cm_last_error',
                                               call |-> call]
                             /\ cm_objects' = Append(cm_objects, log)
                        ELSE /\ lua_result' = [method |-> method, lua_args |-> lua_args, status |-> "returned",
                                               values |-> <<1>>, message |-> <<>>,
                                               call |-> call]
                             /\ cm_objects' = Append(cm_objects, VerifySucceeded(log))

\* the values the model passes as arguments 2 and 3 of cartesi.machine
CtorArg2Choices == {<<"table", "config">>, <<"string", "dir">>, LuaNil}

CtorArg3Choices == {<<"table", "runtime">>, LuaNil}

\* mutant: everything but a string is taken for a config table
CtorUsesCreate_NotString(arg2) == arg2[1] # "string"

\* lua_type(L, 2) == LUA_TTABLE
CtorUsesCreate(arg2) == arg2[1] = "table"

\* cartesi.machine(config or directory, runtime_config)
MachineCtor(arg2, arg3) ==
    LET managed_machine == NewWrapper("cm_machine", "null")
        runtime_config  == ToJson(arg3)
        create          == CtorUsesCreate(arg2)
    IN /\ Callable("__call")
       /\ Len(cm_objects) < MaxObjects
       /\ UNCHANGED <<back_vars, ret, step_vars, class_vars>>
       /\ IF ~create /\ ~CheckPasses("lstring", arg2)
          THEN /\ lua_result' = [method |-> "machine", lua_args |-> <<arg2, arg3>>, status |-> "error", values |-> <<>>,
                                 message |-> <<"bad argument", 2>>, call |-> NoCall]
               /\ cm_objects' = Append(cm_objects, managed_machine)
               /\ UNCHANGED cm_last_error
          ELSE \E rc \in CmResults :
                  LET call == IF create
                              THEN [api |-> "cm_create",
                                    args |-> <<ToJson(arg2), runtime_config>>, rc |-> rc]
                              ELSE [api |-> "cm_load",
                                    args |-> <<<<"dir", arg2[2]>>, runtime_config>>, rc |-> rc]
                  IN /\ cm_last_error' = CmLastError(rc)
                     /\ IF rc # 0
                        THEN /\ lua_result' = [method |-> "machine", lua_args |-> <<arg2, arg3>>, status |-> "error",
                                               values |-> <<>>, message |-> cm_last_error',
                                               call |-> call]
                             /\ cm_objects' = Append(cm_objects, managed_machine)
                        ELSE /\ lua_result' = [method |-> "machine", lua_args |-> <<arg2, arg3>>, status |-> "returned",
                                               values |-> <<<<"cm_machine",
                                                             Len(cm_objects) + 1>>>>,
                                               message |-> <<>>, call |-> call]
                             /\ cm_objects' = Append(cm_objects,
                                    [managed_machine EXCEPT !.ptr = "held",
                                                            !.reachable = TRUE,
                                                            !.exit = "success"])

\* what cm_get_default_config returns: a null pointer or the JSON text
NullConfig == <<"null">>

DefaultConfig == ToJson(<<"table", "default">>)

\* machine.get_default_config(); a null return is recorded as result -1
GetDefaultConfig(config) ==
    /\ Callable("get_default_config")
    /\ UNCHANGED <<back_vars, ret, step_vars, class_vars, cm_objects>>
    /\ IF config = NullConfig
       THEN /\ cm_last_error' = CmLastError(0 - 1)
            /\ lua_result' = [method |-> "get_default_config", lua_args |-> <<>>, status |-> "error",
                              values |-> <<>>, message |-> cm_last_error',
                              call |-> [api |-> "cm_get_default_config", args |-> <<>>,
                                        rc |-> 0 - 1]]
       ELSE /\ cm_last_error' = CmLastError(0)
            /\ lua_result' = [method |-> "get_default_config", lua_args |-> <<>>, status |-> "returned",
                              values |-> <<JsonParse(config)>>, message |-> <<>>,
                              call |-> [api |-> "cm_get_default_config", args |-> <<>>,
                                        rc |-> 0]]

\* the Lua collector finalises a wrapper nothing refers to any more: its
\* __gc releases the C object if the wrapper still holds the pointer
LuaGC(i) ==
    /\ i \in DOMAIN cm_objects
    /\ ~cm_objects[i].finalised
    /\ ~cm_objects[i].reachable
    /\ cm_objects' = [cm_objects EXCEPT ![i] = [Reset(@) EXCEPT !.finalised = TRUE]]
    /\ UNCHANGED <<back_vars, ret, step_vars, class_vars, lua_result, cm_last_error>>

NextLua ==
    \/ CluaMachineInit
    \/ CluaMachineExport
    \/ \E method \in VerifyMethods : \E lua_args \in ArgChoices[method] :
          VerifyCall(method, lua_args)
    \/ \E arg2 \in CtorArg2Choices, arg3 \in CtorArg3Choices : MachineCtor(arg2, arg3)
    \/ \E config \in {NullConfig, DefaultConfig} : GetDefaultConfig(config)
    \/ \E i \in 1 .. MaxObjects : LuaGC(i)

SpecLua == Init /\ [][NextLua]_vars

(***************************************************************************)
(* Reference tree: the full binary tree built bottom-up, level by level    *)
(***************************************************************************)
Depth == m_log2_root_size - m_log2_leaf_size

PristineLeaf == PristineHash(m_log2_leaf_size, m_log2_word_size)

\* the hashes one level above a level of hashes of even length
LevelUp(level) == [j \in 1 .. (Len(level) \div 2) |-> <<level[2 * j - 1], level[2 * j]>>]

\* the root of the full tree over a level whose length is a power of two
RECURSIVE TreeRoot(_)
TreeRoot(level) == IF Len(level) = 1 THEN level[1] ELSE TreeRoot(LevelUp(level))

\* the 2^depth leaves of the reference tree: the pushed ones, then pristine ones
ReferenceLeaves ==
    [j \in 1 .. (2 ^ Depth) |-> IF j <= Len(pushed) THEN pushed[j] ELSE PristineLeaf]

\* level i of the reference tree (level 0 being the leaves)
RECURSIVE ReferenceLevel(_)
ReferenceLevel(i) == IF i = 0 THEN ReferenceLeaves ELSE LevelUp(ReferenceLevel(i - 1))

\* the root of the block of pushed leaves at 0-based positions first .. last
BlockRoot(first, last) ==
    IF first < 0 \/ last >= Len(pushed) \/ last < first
    THEN <<>>
    ELSE TreeRoot(SubSeq(pushed, first + 1, last + 1))

\* n & ~((1 << k) - 1)
ClearLowBits(n, k) == n - (n % (2 ^ k))

TypeOK ==
    /\ constructed \in {"none", "ok", "failed"}
    /\ constructed = "ok" => /\ m_leaf_count \in 0 .. m_max_leaves
                             /\ Len(pushed) = m_leaf_count
                             /\ DOMAIN m_context = 0 .. Depth

(***************************************************************************)
(* C1  Root equivalence: after k successful push_back calls, 0 <= k <=     *)
(* max_leaves, get_root_hash() is the root of the reference tree over      *)
(* 2^depth leaves whose first k leaves are the pushed ones and whose other *)
(* leaves are pristine; for k = 2^depth it is the root of the full tree    *)
(* built bottom-up from the pushed leaves.                                 *)
(***************************************************************************)
C1_RootEquivalence ==
    constructed = "ok" =>
        /\ m_leaf_count = Len(pushed)
        /\ CurrentRoot = TreeRoot(ReferenceLeaves)
        /\ m_leaf_count = 2 ^ Depth => CurrentRoot = TreeRoot(pushed)
        /\ (ret.op = "get_root_hash" /\ ret.err = "none") => ret.val = TreeRoot(ReferenceLeaves)

\* a partly filled tree of depth 3 with a data leaf, and a root just read
C1_Witness ==
    /\ constructed = "ok"
    /\ Depth = 3
    /\ m_leaf_count = 5
    /\ pushed[2] = DataHash
    /\ pushed[5] = DataHash
    /\ ret.op = "get_root_hash"
    /\ ret.val = TreeRoot(ReferenceLeaves)

(***************************************************************************)
(* C2  Next-leaf proof soundness: in every non-full state the proof of     *)
(* get_next_leaf_proof() has depth siblings (context[i] where bit i of     *)
(* leaf_count is set, the pristine hash of that level otherwise), the      *)
(* pristine leaf as target hash, leaf_count << log2_leaf_size as target    *)
(* address, get_root_hash() as root hash, and it verifies.                 *)
(***************************************************************************)
C2_ProofShape(proof) ==
    /\ DOMAIN proof.sibling_hashes = m_log2_leaf_size .. (m_log2_root_size - 1)
    /\ Cardinality(DOMAIN proof.sibling_hashes) = Depth
    /\ \A i \in 0 .. (Depth - 1) :
          proof.sibling_hashes[m_log2_leaf_size + i] =
              IF BitSet(m_leaf_count, i)
              THEN m_context[i]
              ELSE PristineHash(m_log2_leaf_size + i, m_log2_word_size)
    /\ proof.target_hash = PristineLeaf
    /\ IF m_leaf_count = 0
       THEN proof.target_address = 0
       ELSE proof.target_address = m_leaf_count * (2 ^ m_log2_leaf_size)
    /\ proof.log2_target_size = m_log2_leaf_size
    /\ proof.log2_root_size = m_log2_root_size
    /\ proof.root_hash = CurrentRoot
    /\ proof.root_hash = TreeRoot(ReferenceLeaves)
    /\ ProofVerify(proof)

C2_NextLeafProofSound ==
    (constructed = "ok" /\ m_leaf_count < m_max_leaves) =>
        /\ C2_ProofShape(CurrentProof)
        /\ ret.op = "get_next_leaf_proof" => (ret.err = "none" /\ C2_ProofShape(ret.val))

\* a proof returned for position 3 of a depth-2 tree with two-byte leaves
C2_Witness ==
    /\ constructed = "ok"
    /\ Depth = 2
    /\ m_log2_leaf_size = 1
    /\ m_leaf_count = 3
    /\ pushed[1] = DataHash
    /\ ret.op = "get_next_leaf_proof"
    /\ ret.err = "none"
    /\ ret.val.target_address = 6
    /\ ProofVerify(ret.val)

(***************************************************************************)
(* C3  push_back capacity: from a fresh tree exactly max_leaves            *)
(* consecutive push_back calls succeed, the one at max_leaves - 1          *)
(* included; a push_back at leaf_count = max_leaves fails with the         *)
(* out_of_range "too many leaves" error and leaves leaf_count, the context *)
(* and hence the root unchanged.                                           *)
(***************************************************************************)
PushBackStep == \E leaf_hash \in LeafHashes : PushBack(leaf_hash)

C3_PushBackCapacity ==
    [][PushBackStep =>
          IF m_leaf_count < m_max_leaves
          THEN /\ ret'.err = "none"
               /\ m_leaf_count' = m_leaf_count + 1
               /\ m_leaf_count' <= m_max_leaves
          ELSE /\ m_leaf_count = m_max_leaves
               /\ ret'.err = "out_of_range"
               /\ ret'.msg = "too many leaves"
               /\ m_leaf_count' = m_leaf_count
               /\ m_context' = m_context
               /\ RootHash(m_context', m_leaf_count', m_max_leaves', m_log2_root_size',
                           m_log2_leaf_size', m_log2_word_size') = CurrentRoot]_vars

\* a depth-2 tree that took its 4 leaves and refused the fifth
C3_Witness ==
    /\ constructed = "ok"
    /\ Depth = 2
    /\ m_leaf_count = m_max_leaves
    /\ Len(pushed) = 4
    /\ ret.op = "push_back"
    /\ ret.err = "out_of_range"

(***************************************************************************)
(* C4  get_next_leaf_proof() fails with the tree-full error exactly when   *)
(* leaf_count = max_leaves; otherwise it returns a proof; either way the   *)
(* tree is left unchanged.                                                 *)
(***************************************************************************)
C4_NextLeafProofFullOnly ==
    [][GetNextLeafProof =>
          /\ UNCHANGED tree_vars
          /\ (ret'.err = "out_of_range" /\ ret'.msg = "tree is full")
                 <=> (m_leaf_count = m_max_leaves)
          /\ m_leaf_count # m_max_leaves =>
                 (ret'.err = "none" /\ ret'.val = CurrentProof)]_vars

\* the proof was asked of a full depth-2 tree and refused
C4_Witness ==
    /\ constructed = "ok"
    /\ Depth = 2
    /\ m_leaf_count = m_max_leaves
    /\ ret.op = "get_next_leaf_proof"
    /\ ret.err = "out_of_range"
    /\ ret.msg = "tree is full"

(***************************************************************************)
(* C5  new(log2_root_size, log2_leaf_size, log2_word_size) fails with an   *)
(* out-of-range error exactly when a size is negative, or log2_leaf_size > *)
(* log2_root_size, or log2_word_size > log2_leaf_size, or log2_root_size   *)
(* >= the bits of the address word; every other triple yields a tree with  *)
(* leaf_count = 0 and max_leaves = 2^(log2_root_size - log2_leaf_size).    *)
(***************************************************************************)
C5_Invalid(t) ==
    \/ t[1] < 0 \/ t[2] < 0 \/ t[3] < 0
    \/ t[2] > t[1]
    \/ t[3] > t[2]
    \/ t[1] >= AddressDigits

C5_ConstructorRange ==
    constructed # "none" =>
        /\ (constructed = "failed") <=> C5_Invalid(args)
        /\ constructed = "failed" => (ret.op = "new" /\ ret.err = "out_of_range")
        /\ (constructed = "ok" /\ ret.op = "new") =>
              /\ ret.err = "none"
              /\ m_leaf_count = 0
              /\ m_max_leaves = 2 ^ (args[1] - args[2])
              /\ <<m_log2_root_size, m_log2_leaf_size, m_log2_word_size>> = args

\* a triple whose only fault is log2_word_size > log2_leaf_size was rejected
C5_Witness ==
    /\ constructed = "failed"
    /\ args = <<2, 1, 2>>
    /\ ret.msg = "log2_word_size is greater than log2_word_size"

(***************************************************************************)
(* C6  Spine invariant: for every bit i (0 <= i <= depth) set in           *)
(* leaf_count, context[i] is the root of the most recently completed full  *)
(* subtree of height i that has not been absorbed into a taller one, i.e.  *)
(* node (leaf_count >> i) - 1 of level i of the reference tree; after      *)
(* L0..L3 in a depth-3 tree, context[2] = H(H(L0,L1),H(L2,L3)).            *)
(***************************************************************************)
C6_SpineInvariant ==
    constructed = "ok" =>
        \A i \in 0 .. Depth :
            BitSet(m_leaf_count, i) =>
                m_context[i] = ReferenceLevel(i)[m_leaf_count \div (2 ^ i)]

\* the carry cascade of the fourth push into a depth-3 tree
C6_Witness ==
    /\ constructed = "ok"
    /\ Depth = 3
    /\ Len(pushed) = 4
    /\ pushed[1] = DataHash
    /\ pushed[4] = DataHash
    /\ m_context[2] = <<<<pushed[1], pushed[2]>>, <<pushed[3], pushed[4]>>>>
    /\ ~BitSet(m_leaf_count, 0)
    /\ ~BitSet(m_leaf_count, 1)

(***************************************************************************)
(* C7  Spine leaf range, as stated: for every bit i set in leaf_count,     *)
(* context[i] is the hash of the 2^i most recently appended leaves, a      *)
(* block of 2^i consecutive leaves ending at leaf position                 *)
(* (leaf_count & ~((1 << (i+1)) - 1)) - 1.                                 *)
(***************************************************************************)
C7_StatedEnd(i) == ClearLowBits(m_leaf_count, i + 1) - 1

C7_SpineRangeAsStated ==
    constructed = "ok" =>
        \A i \in 0 .. Depth :
            BitSet(m_leaf_count, i) =>
                /\ C7_StatedEnd(i) = m_leaf_count - 1
                /\ m_context[i] = BlockRoot(C7_StatedEnd(i) - (2 ^ i) + 1, C7_StatedEnd(i))

(***************************************************************************)
(* C7  amended: for every bit i set in leaf_count, context[i] is the hash  *)
(* of the block of 2^i consecutive appended leaves that starts at position *)
(* leaf_count & ~((1 << (i+1)) - 1) and ends at position                   *)
(* (leaf_count & ~((1 << i) - 1)) - 1; the block ends at the last appended *)
(* leaf exactly when i is the lowest set bit of leaf_count.                *)
(***************************************************************************)
C7_First(i) == ClearLowBits(m_leaf_count, i + 1)

C7_Last(i) == ClearLowBits(m_leaf_count, i) - 1

C7_SpineRange ==
    constructed = "ok" =>
        \A i \in 0 .. Depth :
            BitSet(m_leaf_count, i) =>
                /\ C7_Last(i) - C7_First(i) + 1 = 2 ^ i
                /\ m_context[i] = BlockRoot(C7_First(i), C7_Last(i))
                /\ (C7_Last(i) = m_leaf_count - 1)
                       <=> (\A j \in 0 .. (i - 1) : ~BitSet(m_leaf_count, j))

\* five leaves in a depth-3 tree: context[0] covers leaf 4, context[2] leaves 0..3
C7_Witness ==
    /\ constructed = "ok"
    /\ Depth = 3
    /\ m_leaf_count = 5
    /\ pushed[1] = DataHash
    /\ pushed[3] = DataHash
    /\ pushed[5] = DataHash
    /\ m_context[0] = BlockRoot(4, 4)
    /\ m_context[2] = BlockRoot(0, 3)

(***************************************************************************)
(* C8  get_root_hash() is total: in every state reached by construction    *)
(* and any interleaving of push_back, get_root_hash and                    *)
(* get_next_leaf_proof calls, failed ones included, leaf_count <=          *)
(* max_leaves, so the assertion of get_root_hash holds and it returns a    *)
(* hash; on a full tree it returns context[depth].                         *)
(***************************************************************************)
C8_RootHashTotal ==
    constructed = "ok" =>
        /\ m_leaf_count <= m_max_leaves
        /\ ret.err # "assert"
        /\ ret.op = "get_root_hash" =>
              /\ ret.err = "none"
              /\ ret.val # <<>>
              /\ m_leaf_count = m_max_leaves => ret.val = m_context[Depth]

\* the root of a full depth-2 tree was read
C8_Witness ==
    /\ constructed = "ok"
    /\ Depth = 2
    /\ m_leaf_count = m_max_leaves
    /\ pushed[2] = DataHash
    /\ ret.op = "get_root_hash"
    /\ ret.val = m_context[2]

(***************************************************************************)
(* C9  Step equivalence: for any machine state with root r0 and any        *)
(* sequence of word reads and writes made through the logging state        *)
(* access, the verifier accepts (r0, log, r1) exactly when r1 is the root  *)
(* of the state the same accesses produce through the direct state access; *)
(* the records appear in access order, one per access.                     *)
(***************************************************************************)
C9_StepEquivalence ==
    /\ state_logged = state_direct
    /\ \A s \in MachineStates :
          (VerifyStepTransition(MachineRoot(pre_state), access_log, MachineRoot(s)) = "ok")
              <=> (MachineRoot(s) = MachineRoot(state_direct))

\* a log of a write that changed a word followed by a read of that word
C9_Witness ==
    /\ Len(access_log) = 2
    /\ access_log[1].kind = "write"
    /\ access_log[1].read_value # access_log[1].written_value
    /\ access_log[2].kind = "read"
    /\ access_log[2].address = access_log[1].address
    /\ state_direct # pre_state
    /\ VerifyStepTransition(MachineRoot(pre_state), access_log, MachineRoot(state_direct)) = "ok"

(***************************************************************************)
(* Logs that differ from a log in one field of one record                  *)
(***************************************************************************)
\* the hashes a tampered field is given: every node of the trees of the
\* states of the step, the word hashes and the zero hash
HashPool ==
    {ZeroHash} \cup {WordHash(v) : v \in Values}
    \cup UNION {{MachineLevel(s, k)[j] : j \in 1 .. (2 ^ (Log2MachineRoot - Log2WordSize - k))} :
                   s \in {pre_state, state_logged},
                   k \in 0 .. (Log2MachineRoot - Log2WordSize)}

AddressTampers(log) ==
    {[log EXCEPT ![i].address = a, ![i].proof.target_address = a] :
        i \in 1 .. Len(log), a \in WordAddresses} \ {log}

ReadValueTampers(log) ==
    {[log EXCEPT ![i].read_value = v] : i \in 1 .. Len(log), v \in Values} \ {log}

WrittenValueTampers(log) ==
    {[log EXCEPT ![i].written_value = v] :
        i \in {j \in 1 .. Len(log) : log[j].kind = "write"}, v \in Values} \ {log}

TargetHashTampers(log) ==
    {[log EXCEPT ![i].proof.target_hash = h] : i \in 1 .. Len(log), h \in HashPool} \ {log}

RootHashTampers(log) ==
    {[log EXCEPT ![i].proof.root_hash = h] : i \in 1 .. Len(log), h \in HashPool} \ {log}

SiblingTampers(log) ==
    {[log EXCEPT ![i].proof.sibling_hashes[l] = h] :
        i \in 1 .. Len(log), l \in Log2WordSize .. (Log2MachineRoot - 1), h \in HashPool}
    \ {log}

Accepted(log) ==
    VerifyStepTransition(MachineRoot(pre_state), log, MachineRoot(state_logged)) = "ok"

ForwardsToSameName(method) ==
    /\ MethodVerb(Forward(method)) = MethodVerb(method)
    /\ MethodComponent(Forward(method)) = MethodComponent(method)

C13_ReadsForwardToReads ==
    [][(access_log' # access_log) =>
          /\ ForwardsToSameName(ret'.op)
          /\ MethodVerb(ret'.op) = "read" =>
                /\ state_direct' = state_direct
                /\ state_logged' = state_logged
                /\ access_log'[Len(access_log')].kind = "read"]_vars

(***************************************************************************)
(* C14  The catalog as stated: for each state component the interface      *)
(* exposes (registers, pc, counters, CSRs, iflags H, I and PRV, mtimecmp,  *)
(* fromhost, tohost, PMA entries, memory) there is both a read operation   *)
(* and a write operation.                                                  *)
(***************************************************************************)
C14_ReadAndWriteForAll ==
    \A component \in CatalogComponents :
        /\ CatalogMethods(component, {"read"}) # {}
        /\ CatalogMethods(component, {"write"}) # {}

C14_Catalog ==
    /\ {"register", "pc", "minstret", "mcycle", "mstatus", "iflags_H", "iflags_I",
        "iflags_PRV", "mtimecmp", "fromhost", "tohost", "pma", "memory"}
           \subseteq CatalogComponents
    /\ \A component \in CatalogComponents :
          /\ Cardinality(CatalogMethods(component, {"read"})) = 1
          /\ Cardinality(CatalogMethods(component, {"write", "set", "reset"})) =
                 IF component = "pma" THEN 0 ELSE 1
          /\ CatalogMethods(component, {"write"}) = {}
                 <=> component \in {"iflags_H", "iflags_I", "pma"}
          /\ CatalogMethods(component, {"set"}) # {} <=> component = "iflags_H"
          /\ CatalogMethods(component, {"reset"}) # {} <=> component = "iflags_I"

LowestClearBit(n) ==
    CHOOSE j \in 0 .. (Depth + 1) :
        /\ ~BitSet(n, j)
        /\ \A i \in 0 .. (j - 1) : BitSet(n, i)

\* H(context[j-1], ... H(context[1], H(context[0], leaf_hash)) ...)
RECURSIVE CarryChain(_, _)
CarryChain(j, leaf_hash) ==
    IF j = 0 THEN leaf_hash ELSE <<m_context[j - 1], CarryChain(j - 1, leaf_hash)>>

C15_PushBackFrame ==
    [][(PushBackStep /\ m_leaf_count < m_max_leaves) =>
          LET j == LowestClearBit(m_leaf_count)
          IN /\ j \in DOMAIN m_context
             /\ m_context'[j] = CarryChain(j, pushed'[Len(pushed')])
             /\ \A i \in DOMAIN m_context : i # j => m_context'[i] = m_context[i]
             /\ DOMAIN m_context' = DOMAIN m_context
             /\ ret'.val = <<j>>
             /\ m_leaf_count' = m_leaf_count + 1]_vars

\* the fourth push into a tree of depth 2 or more: two combinations, context[2] written
C15_Witness ==
    /\ constructed = "ok"
    /\ Depth >= 2
    /\ m_leaf_count = 4
    /\ ret.op = "push_back"
    /\ ret.val = <<2>>
    /\ pushed[1] = DataHash
    /\ pushed[4] = DataHash
    /\ m_context[2] = <<<<pushed[1], pushed[2]>>, <<pushed[3], pushed[4]>>>>
    /\ m_context[0] = pushed[3]

(***************************************************************************)
(* C16  Stale context entries are never observed: two trees with the same  *)
(* parameters and leaf_count whose contexts agree wherever a bit of        *)
(* leaf_count is set, and differ arbitrarily elsewhere, return the same    *)
(* root and next-leaf proof now and after any identical further pushes; an *)
(* entry at a clear bit is overwritten before that bit becomes set.        *)
(***************************************************************************)
\* the hashes a stale entry may hold
StaleHashes == {ZeroHash, DataHash, <<DataHash, ZeroHash>>}

\* two contexts agree wherever a bit of leaf_count is set
AgreeAtSetBits(context1, context2, leaf_count) ==
    /\ DOMAIN context1 = DOMAIN context2
    /\ \A i \in DOMAIN context1 : BitSet(leaf_count, i) => context1[i] = context2[i]

\* contexts that agree with m_context at every set bit of leaf_count: one
\* clear-bit entry, or all of them, replaced by a stale hash
StaleContexts ==
    {[i \in DOMAIN m_context |->
         IF ~BitSet(m_leaf_count, i) /\ i \in which THEN h ELSE m_context[i]] :
        h \in StaleHashes,
        which \in {DOMAIN m_context} \cup {{i} : i \in DOMAIN m_context}}

\* what the two queries return on a tree with the given context
Observations(context) ==
    <<RootHash(context, m_leaf_count, m_max_leaves, m_log2_root_size, m_log2_leaf_size,
               m_log2_word_size),
      IF NextLeafProofFull(m_leaf_count, m_max_leaves)
      THEN <<>>
      ELSE NextLeafProof(context, m_leaf_count, m_log2_root_size, m_log2_leaf_size,
                         m_log2_word_size)>>

\* the queries agree now, and one more push_back of the same leaf on both
\* trees leaves contexts that again agree at the set bits of the new count
C16_StaleEntriesUnobserved ==
    (constructed = "ok" /\ ret.op \in {"new", "push_back"}) =>
        \A context \in StaleContexts :
            /\ AgreeAtSetBits(m_context, context, m_leaf_count)
            /\ Observations(context) = Observations(m_context)
            /\ ~PushBackFull(m_leaf_count, m_max_leaves) =>
                  \A leaf_hash \in LeafHashes :
                      AgreeAtSetBits(PushBackLoop(m_context, m_leaf_count, leaf_hash, 0, Depth),
                                     PushBackLoop(context, m_leaf_count, leaf_hash, 0, Depth),
                                     m_leaf_count + 1)

\* two leaves in a depth-2 tree: bit 1 set, entries 0 and 2 free to be stale
C16_Witness ==
    /\ constructed = "ok"
    /\ Depth = 2
    /\ m_leaf_count = 2
    /\ ret.op = "push_back"
    /\ pushed[1] = DataHash
    /\ Cardinality(StaleContexts) > 1
    /\ \E context \in StaleContexts : context[0] # m_context[0] /\ context[2] # m_context[2]

(***************************************************************************)
(* C17  get_root_hash and get_next_leaf_proof are pure queries: neither    *)
(* changes leaf_count or any context entry, the value returned is the one  *)
(* the tree's state determines, and a query repeated with no push_back in  *)
(* between returns the same result, so later roots and proofs, which       *)
(* depend on the tree's state only, are unaffected.                        *)
(***************************************************************************)
Queries == {"get_root_hash", "get_next_leaf_proof"}

QueryResult(op) ==
    IF op = "get_root_hash"
    THEN [op |-> op, err |-> "none", msg |-> "", val |-> CurrentRoot]
    ELSE IF NextLeafProofFull(m_leaf_count, m_max_leaves)
         THEN [op |-> op, err |-> "out_of_range", msg |-> "tree is full", val |-> <<>>]
         ELSE [op |-> op, err |-> "none", msg |-> "", val |-> CurrentProof]

C17_PureQueries ==
    [][(ret'.op \in Queries) =>
          /\ UNCHANGED <<tree_vars, pushed, constructed>>
          /\ ret' = QueryResult(ret'.op)
          /\ (ret.op = ret'.op => ret' = ret)]_vars

\* a proof asked for after a root, between the second and the third push
C17_Witness ==
    /\ constructed = "ok"
    /\ Depth = 2
    /\ m_leaf_count = 2
    /\ pushed = <<DataHash, DataHash>>
    /\ ret.op = "get_next_leaf_proof"
    /\ ret.err = "none"
    /\ ret.val.target_address = ShiftLeft(2, m_log2_leaf_size)
    /\ ret.val.root_hash = CurrentRoot

(***************************************************************************)
(* C18  Degenerate and empty trees: the root of a fresh tree is the        *)
(* pristine hash of log2_root_size and its next-leaf proof targets address *)
(* 0; a tree of depth 0 has max_leaves 1, its next-leaf proof has no       *)
(* siblings and the pristine leaf hash as root, its single push of L       *)
(* stores L in context[0] and makes L the root, and every further push     *)
(* fails because the tree is full.                                         *)
(***************************************************************************)
C18_FreshTree ==
    m_leaf_count = 0 =>
        /\ CurrentRoot = PristineHash(m_log2_root_size, m_log2_word_size)
        /\ ~NextLeafProofFull(m_leaf_count, m_max_leaves)
        /\ CurrentProof.target_address = 0
        /\ (ret.op = "get_root_hash" => ret.val = PristineHash(m_log2_root_size, m_log2_word_size))
        /\ (ret.op = "get_next_leaf_proof" => ret.err = "none" /\ ret.val.target_address = 0)

C18_DepthZero ==
    Depth = 0 =>
        /\ m_max_leaves = 1
        /\ m_leaf_count \in {0, 1}
        /\ m_leaf_count = 0 =>
              /\ DOMAIN CurrentProof.sibling_hashes = {}
              /\ CurrentProof.root_hash = PristineLeaf
              /\ ~PushBackFull(m_leaf_count, m_max_leaves)
              /\ ret.op # "push_back"
        /\ m_leaf_count = 1 =>
              /\ m_context[0] = pushed[1]
              /\ CurrentRoot = pushed[1]
              /\ PushBackFull(m_leaf_count, m_max_leaves)
              /\ (ret.op = "get_root_hash" => ret.val = pushed[1])
              /\ (ret.op = "push_back" /\ ret.err # "none" =>
                      ret.err = "out_of_range" /\ ret.msg = "too many leaves")

C18_DegenerateTrees == constructed = "ok" => C18_FreshTree /\ C18_DepthZero

\* the all-zero tree after its single push and a second, refused one
C18_Witness ==
    /\ constructed = "ok"
    /\ args = <<0, 0, 0>>
    /\ m_leaf_count = 1
    /\ pushed = <<DataHash>>
    /\ m_context[0] = DataHash
    /\ ret.op = "push_back"
    /\ ret.err = "out_of_range"

(***************************************************************************)
(* C19  Configuration errors are detected before the parameters are used:  *)
(* when the constructor reports an out-of-range triple, the shift          *)
(* 1 << (log2_root_size - log2_leaf_size) has not been evaluated with a    *)
(* negative or too-large amount and no pristine table has been built from  *)
(* the invalid sizes; a rejected triple leaves no usable tree.             *)
(***************************************************************************)
\* the shift amounts for which address_type{1} << amount is defined
DefinedShifts == 0 .. (AddressDigits - 1)

C19_NoTreeAfterError ==
    constructed = "failed" =>
        /\ CtorError(args[1], args[2], args[3]) # ""
        /\ ret.op = "new"
        /\ ret.err = "out_of_range"
        /\ m_context = <<>>
        /\ m_max_leaves = 0

C19_ChecksBeforeUse ==
    /\ C19_NoTreeAfterError
    /\ constructed = "failed" => ctor_shift \in DefinedShifts

(***************************************************************************)
(* C11  The Lua bindings never silently drop a failure: a verify_ method   *)
(* whose C API call returns non-zero raises a Lua error carrying           *)
(* cm_get_last_error_message(), and it returns exactly one value, the      *)
(* number 1, only when the call returned zero; no call both reports        *)
(* success and had a failing verification.                                 *)
(***************************************************************************)
C11_NoSilentFailure ==
    lua_result.method \in VerifyMethods =>
        /\ lua_result.status \in {"error", "returned"}
        /\ (lua_result.call.api # "none" /\ lua_result.call.rc # 0) =>
              /\ lua_result.status = "error"
              /\ lua_result.values = <<>>
              /\ lua_result.message = <<"cm_error", lua_result.call.rc>>
              /\ lua_result.message = cm_last_error
        /\ lua_result.status = "returned" =>
              /\ lua_result.call.api = BindingOf[lua_result.method].api
              /\ lua_result.call.rc = 0
              /\ lua_result.values = <<1>>
        /\ lua_result.call.api = "none" => lua_result.status = "error"

\* a state-transition check of a cmio response that the C API refused
C11_Witness ==
    /\ lua_result.method = "verify_send_cmio_response_state_transition"
    /\ lua_result.call.api = "cm_verify_send_cmio_response_state_transition"
    /\ lua_result.call.rc = 0 - 1
    /\ lua_result.status = "error"
    /\ lua_result.message = <<"cm_error", 0 - 1>>

(***************************************************************************)
(* C12  Every access log converted by a verify_ binding is owned by its    *)
(* managed wrapper and is released when the binding call exits, on the     *)
(* success path and on every error path, and it is never released twice.   *)
(***************************************************************************)
AccessLogs == {i \in DOMAIN cm_objects : cm_objects[i].kind = "cm_access_log"}

C12_NeverReleasedTwice == \A i \in AccessLogs : cm_objects[i].releases <= 1

\* no binding call is running in any state, so every log's call has exited
C12_ReleasedAtExit ==
    /\ C12_NeverReleasedTwice
    /\ \A i \in AccessLogs : cm_objects[i].releases = 1 /\ cm_objects[i].ptr = "null"

(***************************************************************************)
(* C20  The cartesi.machine constructor calls cm_create with the JSON of   *)
(* argument 2 when it is a table and cm_load with argument 2 as directory  *)
(* otherwise, always with the JSON of argument 3 as runtime config; a      *)
(* non-zero result raises a Lua error carrying the last error message and  *)
(* returns no machine, a zero result returns exactly one value, the        *)
(* managed machine; get_default_config raises when the C API returns null. *)
(***************************************************************************)
\* what the constructor does once the C API function has been chosen
C20_CallOutcome(arg2, arg3, api, first_arg) ==
    /\ lua_result'.call.api = api
    /\ lua_result'.call.args = <<first_arg, ToJson(arg3)>>
    /\ lua_result'.call.rc # 0 =>
          /\ lua_result'.status = "error"
          /\ lua_result'.message = <<"cm_error", lua_result'.call.rc>>
          /\ lua_result'.message = cm_last_error'
          /\ lua_result'.values = <<>>
          /\ cm_objects'[Len(cm_objects')].ptr = "null"
    /\ lua_result'.call.rc = 0 =>
          /\ lua_result'.status = "returned"
          /\ lua_result'.values = <<<<"cm_machine", Len(cm_objects')>>>>
          /\ cm_objects'[Len(cm_objects')].kind = "cm_machine"
          /\ cm_objects'[Len(cm_objects')].ptr = "held"

C20_DefaultConfig ==
    /\ GetDefaultConfig(NullConfig) =>
          /\ lua_result'.status = "error"
          /\ lua_result'.message = cm_last_error'
          /\ lua_result'.values = <<>>
    /\ GetDefaultConfig(DefaultConfig) =>
          /\ lua_result'.status = "returned"
          /\ lua_result'.values = <<<<"table", "default">>>>

\* as stated: everything that is not a table goes to cm_load
C20_ConstructorAsStated ==
    [][/\ \A arg2 \in CtorArg2Choices, arg3 \in CtorArg3Choices :
             MachineCtor(arg2, arg3) =>
                 IF arg2[1] = "table"
                 THEN C20_CallOutcome(arg2, arg3, "cm_create", ToJson(arg2))
                 ELSE C20_CallOutcome(arg2, arg3, "cm_load", <<"dir", arg2[2]>>)
       /\ C20_DefaultConfig]_vars

\* a second argument that is neither a table nor a string raises an argument
\* error: no C API function is called and no machine results
C20_Constructor ==
    [][/\ \A arg2 \in CtorArg2Choices, arg3 \in CtorArg3Choices :
             MachineCtor(arg2, arg3) =>
                 CASE arg2[1] = "table" ->
                          C20_CallOutcome(arg2, arg3, "cm_create", ToJson(arg2))
                   [] arg2[1] = "string" ->
                          C20_CallOutcome(arg2, arg3, "cm_load", <<"dir", arg2[2]>>)
                   [] OTHER ->
                          /\ lua_result'.call = NoCall
                          /\ lua_result'.status = "error"
                          /\ lua_result'.message = <<"bad argument", 2>>
                          /\ lua_result'.values = <<>>
                          /\ cm_objects'[Len(cm_objects')].ptr = "null"
                          /\ cm_last_error' = cm_last_error
       /\ C20_DefaultConfig]_vars

\* a machine loaded from a directory after a call with nil was refused
C20_Witness ==
    /\ Len(cm_objects) = 2
    /\ cm_objects[1].kind = "cm_machine"
    /\ cm_objects[1].ptr = "null"
    /\ cm_objects[1].exit = "error"
    /\ lua_result.method = "machine"
    /\ lua_result.status = "returned"
    /\ lua_result.call.api = "cm_load"
    /\ lua_result.call.args = <<<<"dir", "dir">>, ToJson(LuaNil)>>
    /\ lua_result.values = <<<<"cm_machine", 2>>>>
    /\ cm_objects[2].ptr = "held"

(***************************************************************************)
(* C21  clua_machine_init is idempotent for the machine class: over any    *)
(* number of calls on the same Lua context the class type is created, and  *)
(* its methods, __call and the HTIF constants installed, exactly once, on  *)
(* the first call; later calls leave the class unchanged; and              *)
(* clua_machine_export always sets the field 'machine' of the target table *)
(* to a table carrying that class's metatable.                             *)
(***************************************************************************)
C21_ClassInstalledOnce ==
    IF init_calls = 0
    THEN machine_class = NoClass /\ cartesi.machine = NoMachineField
    ELSE /\ machine_class.created = 1
         /\ machine_class.installed = 1
         /\ machine_class.methods = MachineClassIndex
         /\ machine_class.metamethods = {"__call"}
         /\ machine_class.htif
         /\ ManagedTypes \cup {"machine_class"} \subseteq lua_types

C21_InitIdempotent ==
    [][/\ C21_ClassInstalledOnce'
       /\ init_calls > 0 => machine_class' = machine_class /\ lua_types' = lua_types
       /\ CluaMachineExport =>
             /\ cartesi'.machine.table = cartesi.machine.table + 1
             /\ cartesi'.machine.metatable = machine_class'.created
             /\ cartesi'.machine.metatable = 1
       /\ ~CluaMachineExport => cartesi' = cartesi]_vars

\* three calls, two of them through clua_machine_export
C21_Witness ==
    /\ init_calls = 3
    /\ cartesi.machine.table = 2
    /\ cartesi.machine.metatable = 1
    /\ machine_class.created = 1
    /\ "__call" \in machine_class.metamethods

(***************************************************************************)
(* C22  In the two verify_send_cmio_response methods the Lua integer       *)
(* reason is converted to 16 bits by truncation: the verifier receives     *)
(* reason mod 2^16, so calls whose reasons differ by a multiple of 65536   *)
(* (or a negative reason and its wrapped value) hand the verifier the same *)
(* arguments, and the binding never rejects a reason as out of range.      *)
(***************************************************************************)
CmioMethods == {"verify_send_cmio_response_log", "verify_send_cmio_response_state_transition"}

\* the argument lists that differ from lua_args in the reason only, by a multiple of 2^16
C22_Congruent(lua_args) ==
    {[lua_args EXCEPT ![1] = <<"integer", reason>>] :
        reason \in {r \in Reasons : (r - lua_args[1][2]) % 65536 = 0}}

\* the values a handler hands to the C API for an argument list
C22_Passed(method, lua_args) ==
    LET steps == BindingOf[method].steps
    IN [i \in DOMAIN steps |-> ConvertArg(steps[i][1], lua_args[steps[i][2]])]

C22_ReasonTruncated ==
    (lua_result.method \in CmioMethods /\ lua_result.lua_args[1][1] = "integer") =>
        /\ lua_result.message # <<"bad argument", 1>>
        /\ lua_result.message = <<>> \/ lua_result.message[1] # "bad argument" =>
              /\ lua_result.call.api = BindingOf[lua_result.method].api
              /\ lua_result.call.args[1][2] \in 0 .. 65535
              /\ (lua_result.call.args[1][2] - lua_result.lua_args[1][2]) % 65536 = 0
              /\ \A other \in C22_Congruent(lua_result.lua_args) :
                     C22_Passed(lua_result.method, other) = lua_result.call.args

\* reason -65535 reaches the verifier as 1
C22_Witness ==
    /\ lua_result.method = "verify_send_cmio_response_log"
    /\ lua_result.lua_args[1] = <<"integer", 1 - 65536>>
    /\ lua_result.call.api = "cm_verify_send_cmio_response_log"
    /\ lua_result.call.args[1] = <<"uint16_t", 1>>
    /\ lua_result.status = "returned"
    /\ Cardinality(C22_Congruent(lua_result.lua_args)) = 3
====
